---------------------------- MODULE Spec2Model ----------------------------
(***************************************************************************)
(* A model of package pattern of go-lovense: the pattern-file reader       *)
(* (Reader.ReadHeader, Reader.ReadAllV0Points, Reader.ReadAllV1Points),    *)
(* Parse, which sequences them, the sepReader token scanner and            *)
(* Strength.Scale.                                                         *)
(*                                                                         *)
(* A byte slice is a sequence of one-character strings.  The stream is     *)
(* read through a bufio.Reader, modelled by the number of bytes the parser *)
(* has consumed (pos) and the number fetched from the byte source so far   *)
(* (fetched); the bytes in between are the read-ahead buffer.  The byte    *)
(* source hands over at most `chunk` bytes per Read.                       *)
(***************************************************************************)
EXTENDS Integers, Sequences, FiniteSets, TLC

VARIABLES
    mode,       \* which entry point this behaviour exercises
    input,      \* the bytes of the stream handed to Parse
    origin,     \* how input was written: its header fields and data groups
    chunk,      \* bytes the byte source returns per Read
    size,       \* capacity of the bufio.Reader's buffer
    pos,        \* bytes consumed from the bufio.Reader
    fetched,    \* bytes the bufio.Reader has read from the byte source
    pc,         \* position of Parse
    header,     \* h of Parse
    p,          \* what the point decoder returned
    err,        \* the error Parse returns
    pattern,    \* the *Pattern Parse returns
    stages,     \* the stages Parse has entered, in order
    points,     \* points of ReadAllV0Points
    backing,    \* backing of ReadAllV1Points
    ncap,       \* capacity preallocated from the read-ahead estimate
    stride,     \* stride of ReadAllV1Points
    rerr,       \* err of the read loop
    run,        \* 1 for the first Parse call on input, 2 for the second
    prev,       \* outcome of the first Parse call
    sr,         \* the sepReader
    srIn,       \* the slice the sepReader was created over
    srOut,      \* what next() has returned so far, in order
    scIn,       \* receiver and argument of Strength.Scale
    scOut       \* its result

vars == <<mode, input, origin, chunk, size, pos, fetched, pc, header, p, err,
          pattern, stages, points, backing, ncap, stride, rerr, run, prev,
          sr, srIn, srOut, scIn, scOut>>

parseVars == <<input, origin, chunk, size, pos, fetched, pc, header, p, err,
               pattern, stages, points, backing, ncap, stride, rerr, run, prev>>

-----------------------------------------------------------------------------
(* Bounds of the model *)

\* header fields written after the first one
MaxFields == 2
\* value tokens of a Legacy stream
MaxTokens == 3
\* groups of a Standard data section
MaxGroups == 3
\* length of the slice a sepReader is created over
MaxSepLen == 4

-----------------------------------------------------------------------------
(* Program constants *)

\* bufio.NewReader's buffer
DefaultBufSize == 4096
\* largest value of a Strength (uint8), the bitSize 8 of strconv.ParseUint
MaxUint8 == 255
\* time.Millisecond, in nanoseconds
Millisecond == 1000000
\* divisor of Scale for V0
ScaleV0 == 100
\* divisor of Scale for V1
ScaleV1 == 20

V0 == 0
V1 == 1

-----------------------------------------------------------------------------
(* Bytes *)

Min(a, b) == IF a < b THEN a ELSE b

Digits == <<"0", "1", "2", "3", "4", "5", "6", "7", "8", "9">>

IsDigit(c) == \E d \in 1..10 : Digits[d] = c

DigitVal(c) == (CHOOSE d \in 1..10 : Digits[d] = c) - 1

\* spaces: the bytes bytes.TrimSpace removes
IsSpace(c) == c \in {" ", "\t", "\n", "\r"}

\* bytes.IndexByte: 0-based index of the first c in b, -1 when there is none
IndexByte(b, c) ==
    IF \E i \in 1..Len(b) : b[i] = c
    THEN (CHOOSE i \in 1..Len(b) : b[i] = c /\ \A j \in 1..(i - 1) : b[j] # c) - 1
    ELSE -1

\* bytes.Count for a one-byte separator
Count(b, c) == Cardinality({i \in 1..Len(b) : b[i] = c})

\* bytes.TrimSuffix for a one-byte suffix
TrimSuffix(b, c) ==
    IF Len(b) > 0 /\ b[Len(b)] = c THEN SubSeq(b, 1, Len(b) - 1) ELSE b

RECURSIVE TrimLeft(_)
TrimLeft(b) ==
    IF Len(b) > 0 /\ IsSpace(b[1]) THEN TrimLeft(Tail(b)) ELSE b

RECURSIVE TrimRight(_)
TrimRight(b) ==
    IF Len(b) > 0 /\ IsSpace(b[Len(b)])
    THEN TrimRight(SubSeq(b, 1, Len(b) - 1))
    ELSE b

\* bytes.TrimSpace
TrimSpace(b) == TrimRight(TrimLeft(b))

\* bytes.Split for a one-byte separator: always at least one element
RECURSIVE Split(_, _)
Split(b, c) ==
    LET i == IndexByte(b, c) IN
    IF i = -1 THEN <<b>>
    ELSE <<SubSeq(b, 1, i)>> \o Split(SubSeq(b, i + 2, Len(b)), c)

\* a split at every separator
SplitAll(b, c) == Split(b, c)

\* bytes.SplitN(b, c, 2): cut at the first separator only
SplitN2(b, c) ==
    LET i == IndexByte(b, c) IN
    IF i = -1 THEN <<b>>
    ELSE <<SubSeq(b, 1, i), SubSeq(b, i + 2, Len(b))>>

\* the value of a run of decimal digits
RECURSIVE DigitsVal(_)
DigitsVal(s) ==
    IF Len(s) = 0 THEN 0
    ELSE 10 * DigitsVal(SubSeq(s, 1, Len(s) - 1)) + DigitVal(s[Len(s)])

AllDigits(s) == \A i \in 1..Len(s) : IsDigit(s[i])

\* a conversion that truncates to eight bits instead of reporting the range
ParseUintWrap(s) ==
    IF Len(s) = 0 \/ ~AllDigits(s) THEN [err |-> "syntax", n |-> 0]
    ELSE [err |-> "nil", n |-> DigitsVal(s) % (MaxUint8 + 1)]

\* strconv.ParseUint(s, 10, 8)
ParseUint(s) ==
    IF Len(s) = 0 \/ ~AllDigits(s) THEN [err |-> "syntax", n |-> 0]
    ELSE IF DigitsVal(s) > MaxUint8 THEN [err |-> "range", n |-> MaxUint8]
    ELSE [err |-> "nil", n |-> DigitsVal(s)]

\* a conversion that reads what is no decimal integer as 0
AtoiLenient(s) ==
    LET signed == Len(s) > 0 /\ s[1] \in {"+", "-"}
        body == IF signed THEN Tail(s) ELSE s
    IN  IF Len(body) = 0 \/ ~AllDigits(body) THEN [err |-> "nil", n |-> 0]
        ELSE [err |-> "nil",
              n |-> IF signed /\ s[1] = "-" THEN 0 - DigitsVal(body)
                    ELSE DigitsVal(body)]

\* strconv.Atoi: an optional sign, then decimal digits
Atoi(s) ==
    LET signed == Len(s) > 0 /\ s[1] \in {"+", "-"}
        body == IF signed THEN Tail(s) ELSE s
    IN  IF Len(body) = 0 \/ ~AllDigits(body) THEN [err |-> "syntax", n |-> 0]
        ELSE [err |-> "nil",
              n |-> IF signed /\ s[1] = "-" THEN 0 - DigitsVal(body)
                    ELSE DigitsVal(body)]

-----------------------------------------------------------------------------
(* bufio.Reader over the byte source *)

\* r.buf.Buffered()
Buffered(ps, ft) == ft - ps

\* what one fill() adds: the source returns at most chunk bytes, and no more
\* than the buffer has room for
FillSize(ps, ft) == Min(chunk, Min(size - (ft - ps), Len(input) - ft))

\* a read that takes the end of the buffered bytes for the end of the token:
\* it reads from the source only when the buffer is empty, and only once
ReadSliceNoRefill(delim, ps, ft) ==
    LET ft1 == IF ft = ps THEN ft + FillSize(ps, ft) ELSE ft
        i == IndexByte(SubSeq(input, ps + 1, ft1), delim)
    IN  IF i >= 0
        THEN [line |-> SubSeq(input, ps + 1, ps + i + 1), err |-> "nil",
              pos |-> ps + i + 1, fetched |-> ft1]
        ELSE [line |-> SubSeq(input, ps + 1, ft1),
              err |-> IF ft1 = Len(input) THEN "EOF" ELSE "nil",
              pos |-> ft1, fetched |-> ft1]

\* r.buf.ReadSlice(delim): search the buffer, fill and search again until the
\* delimiter is found, the buffer is full or the source is exhausted
RECURSIVE ReadSlice(_, _, _)
ReadSlice(delim, ps, ft) ==
    LET i == IndexByte(SubSeq(input, ps + 1, ft), delim) IN
    IF i >= 0
    THEN [line |-> SubSeq(input, ps + 1, ps + i + 1), err |-> "nil",
          pos |-> ps + i + 1, fetched |-> ft]
    ELSE IF Buffered(ps, ft) >= size
    THEN [line |-> SubSeq(input, ps + 1, ft), err |-> "ErrBufferFull",
          pos |-> ft, fetched |-> ft]
    ELSE IF ft = Len(input)
    THEN [line |-> SubSeq(input, ps + 1, ft), err |-> "EOF",
          pos |-> ft, fetched |-> ft]
    ELSE ReadSlice(delim, ps, ft + FillSize(ps, ft))

\* r.buf.Peek(n): fill until n bytes are buffered, the buffer is full or the
\* source is exhausted; consumes nothing
RECURSIVE Peek(_, _, _)
Peek(n, ps, ft) ==
    IF Buffered(ps, ft) >= n
    THEN [b |-> SubSeq(input, ps + 1, ps + n), err |-> "nil", fetched |-> ft]
    ELSE IF Buffered(ps, ft) >= size
    THEN [b |-> SubSeq(input, ps + 1, ft), err |-> "ErrBufferFull", fetched |-> ft]
    ELSE IF ft = Len(input)
    THEN [b |-> SubSeq(input, ps + 1, ft), err |-> "EOF", fetched |-> ft]
    ELSE Peek(n, ps, ft + FillSize(ps, ft))

-----------------------------------------------------------------------------
(* Header *)

NoErr == [kind |-> "nil", io |-> "nil", arg |-> <<>>]

\* a default Header with no Feature
DefaultHeaderNoFeature ==
    [Version |-> 0, Type |-> <<>>, Features |-> <<>>,
     Interval |-> 100 * Millisecond, MD5Sum |-> <<>>]

\* the Header ReadHeader starts from; Interval is in nanoseconds
DefaultHeader ==
    [Version |-> 0, Type |-> <<>>, Features |-> <<<<"v">>>>,
     Interval |-> 100 * Millisecond, MD5Sum |-> <<>>]

\* the field loop adding the F tokens to the default list, not replacing it
ApplyFieldAppendF(field, hd) ==
    LET parts == SplitN2(field, ":") IN
    IF Len(parts) # 2 THEN [header |-> hd, err |-> NoErr]
    ELSE LET key == parts[1]
             val == parts[2]
         IN  CASE key = <<"V">> ->
                    IF Atoi(val).err # "nil"
                    THEN [header |-> hd,
                          err |-> [kind |-> "invalid version", io |-> "nil", arg |-> val]]
                    ELSE [header |-> [hd EXCEPT !.Version = Atoi(val).n], err |-> NoErr]
               [] key = <<"T">> ->
                    [header |-> [hd EXCEPT !.Type = val], err |-> NoErr]
               [] key = <<"F">> ->
                    [header |-> [hd EXCEPT !.Features = hd.Features \o Split(val, ",")],
                     err |-> NoErr]
               [] key = <<"S">> ->
                    IF Atoi(val).err # "nil"
                    THEN [header |-> hd,
                          err |-> [kind |-> "invalid S value", io |-> "nil", arg |-> val]]
                    ELSE [header |-> [hd EXCEPT !.Interval = Atoi(val).n * Millisecond],
                          err |-> NoErr]
               [] key = <<"M">> ->
                    [header |-> [hd EXCEPT !.MD5Sum = val], err |-> NoErr]
               [] OTHER -> [header |-> hd, err |-> NoErr]

\* one turn of the field loop of ReadHeader
ApplyField(field, hd) ==
    LET parts == SplitN2(field, ":") IN
    IF Len(parts) # 2 THEN [header |-> hd, err |-> NoErr]
    ELSE LET key == parts[1]
             val == parts[2]
         IN  CASE key = <<"V">> ->
                    IF Atoi(val).err # "nil"
                    THEN [header |-> hd,
                          err |-> [kind |-> "invalid version", io |-> "nil", arg |-> val]]
                    ELSE [header |-> [hd EXCEPT !.Version = Atoi(val).n], err |-> NoErr]
               [] key = <<"T">> ->
                    [header |-> [hd EXCEPT !.Type = val], err |-> NoErr]
               [] key = <<"F">> ->
                    [header |-> [hd EXCEPT !.Features = Split(val, ",")], err |-> NoErr]
               [] key = <<"S">> ->
                    IF Atoi(val).err # "nil"
                    THEN [header |-> hd,
                          err |-> [kind |-> "invalid S value", io |-> "nil", arg |-> val]]
                    ELSE [header |-> [hd EXCEPT !.Interval = Atoi(val).n * Millisecond],
                          err |-> NoErr]
               [] key = <<"M">> ->
                    [header |-> [hd EXCEPT !.MD5Sum = val], err |-> NoErr]
               [] OTHER -> [header |-> hd, err |-> NoErr]

\* the field loop of ReadHeader: the first error ends it
RECURSIVE ApplyFields(_, _)
ApplyFields(fields, hd) ==
    IF Len(fields) = 0 THEN [header |-> hd, err |-> NoErr]
    ELSE LET r == ApplyField(Head(fields), hd) IN
         IF r.err.kind # "nil" THEN r ELSE ApplyFields(Tail(fields), r.header)

\* ReadHeader reading the two bytes it looks at, not peeking them
ReadHeaderConsumesPeek(ps, ft) ==
    LET pk == Peek(2, ps, ft) IN
    IF pk.err # "nil"
    THEN [header |-> DefaultHeader,
          err |-> [kind |-> "cannot peek version", io |-> pk.err, arg |-> <<>>],
          pos |-> ps, fetched |-> pk.fetched]
    ELSE IF pk.b # <<"V", ":">>
    THEN [header |-> DefaultHeader, err |-> NoErr, pos |-> ps + 2, fetched |-> pk.fetched]
    ELSE LET rs == ReadSlice("#", ps, pk.fetched) IN
         IF rs.err # "nil"
         THEN [header |-> DefaultHeader,
               err |-> [kind |-> "read", io |-> rs.err, arg |-> <<>>],
               pos |-> rs.pos, fetched |-> rs.fetched]
         ELSE LET r == ApplyFields(Split(TrimSuffix(rs.line, "#"), ";"), DefaultHeader)
              IN  [header |-> r.header, err |-> r.err,
                   pos |-> rs.pos, fetched |-> rs.fetched]

\* Reader.ReadHeader
ReadHeader(ps, ft) ==
    LET pk == Peek(2, ps, ft) IN
    IF pk.err # "nil"
    THEN [header |-> DefaultHeader,
          err |-> [kind |-> "cannot peek version", io |-> pk.err, arg |-> <<>>],
          pos |-> ps, fetched |-> pk.fetched]
    ELSE IF pk.b # <<"V", ":">>
    THEN [header |-> DefaultHeader, err |-> NoErr, pos |-> ps, fetched |-> pk.fetched]
    ELSE LET rs == ReadSlice("#", ps, pk.fetched) IN
         IF rs.err # "nil"
         THEN [header |-> DefaultHeader,
               err |-> [kind |-> "read", io |-> rs.err, arg |-> <<>>],
               pos |-> rs.pos, fetched |-> rs.fetched]
         ELSE LET r == ApplyFields(Split(TrimSuffix(rs.line, "#"), ";"), DefaultHeader)
              IN  [header |-> r.header, err |-> r.err,
                   pos |-> rs.pos, fetched |-> rs.fetched]

-----------------------------------------------------------------------------
(* sepReader *)

NilSlice == [nil |-> TRUE, data |-> <<>>]

Slice(b) == [nil |-> FALSE, data |-> b]

\* next() that does not clear s.b after the last token
SepNextNoNil(s) ==
    LET tail == IF s.b.nil THEN -1 ELSE IndexByte(s.b.data, s.s) IN
    IF tail = -1
    THEN [ret |-> s.b, s |-> [s EXCEPT !.tail = tail]]
    ELSE [ret |-> Slice(SubSeq(s.b.data, 1, tail)),
          s |-> [s EXCEPT !.tail = tail,
                          !.b = Slice(SubSeq(s.b.data, tail + 2, Len(s.b.data)))]]

\* sepReader.next: the returned slice and the reader after the call
SepNext(s) ==
    LET tail == IF s.b.nil THEN -1 ELSE IndexByte(s.b.data, s.s) IN
    IF tail = -1
    THEN [ret |-> s.b, s |-> [s EXCEPT !.tail = tail, !.b = NilSlice]]
    ELSE [ret |-> Slice(SubSeq(s.b.data, 1, tail)),
          s |-> [s EXCEPT !.tail = tail,
                          !.b = Slice(SubSeq(s.b.data, tail + 2, Len(s.b.data)))]]

-----------------------------------------------------------------------------
(* Point decoders *)

NilPoints == [nil |-> TRUE, pts |-> <<>>]

\* append(points, Point{...}) and append(backing, ...): append grows the
\* slice, whatever capacity it was preallocated with
AppendTo(s, cap, v) == Append(s, v)

\* the preallocation estimate of ReadAllV0Points
EstimateV0(ps, ft) == Count(Peek(Buffered(ps, ft), ps, ft).b, ",") + 1

\* the preallocation estimate of ReadAllV1Points
EstimateV1(ps, ft) ==
    LET b == Peek(Buffered(ps, ft), ps, ft).b IN
    Count(b, ";") + Count(b, ",") + 1

\* the stride loop filling a short group up with zeros
RECURSIVE StrideLoopPadding(_, _, _, _, _)
StrideLoopPadding(pr, i, n, bk, cap) ==
    IF i >= n THEN [err |-> NoErr, backing |-> bk]
    ELSE LET nx == SepNext(pr) IN
         IF nx.ret.nil
         THEN StrideLoopPadding(nx.s, i + 1, n, Append(bk, 0), cap)
         ELSE LET pu == ParseUint(nx.ret.data) IN
              IF pu.err # "nil"
              THEN [err |-> [kind |-> "invalid point", io |-> pu.err, arg |-> nx.ret.data],
                    backing |-> bk]
              ELSE StrideLoopPadding(nx.s, i + 1, n, Append(bk, pu.n), cap)

\* the stride loop refusing a group that has tokens left after the stride
RECURSIVE StrideLoopStrict(_, _, _, _, _)
StrideLoopStrict(pr, i, n, bk, cap) ==
    IF i >= n
    THEN IF pr.b.nil THEN [err |-> NoErr, backing |-> bk]
         ELSE [err |-> [kind |-> "too many points", io |-> "nil", arg |-> pr.b.data],
               backing |-> bk]
    ELSE LET nx == SepNext(pr) IN
         IF nx.ret.nil
         THEN [err |-> [kind |-> "doesn't have points", io |-> "nil", arg |-> <<>>],
               backing |-> bk]
         ELSE LET pu == ParseUint(nx.ret.data) IN
              IF pu.err # "nil"
              THEN [err |-> [kind |-> "invalid point", io |-> pu.err, arg |-> nx.ret.data],
                    backing |-> bk]
              ELSE StrideLoopStrict(nx.s, i + 1, n, AppendTo(bk, cap, pu.n), cap)

\* the stride loop of ReadAllV1Points over one trimmed group b
RECURSIVE StrideLoop(_, _, _, _, _)
StrideLoop(pr, i, n, bk, cap) ==
    IF i >= n THEN [err |-> NoErr, backing |-> bk]
    ELSE LET nx == SepNext(pr) IN
         IF nx.ret.nil
         THEN [err |-> [kind |-> "doesn't have points", io |-> "nil", arg |-> <<>>],
               backing |-> bk]
         ELSE LET pu == ParseUint(nx.ret.data) IN
              IF pu.err # "nil"
              THEN [err |-> [kind |-> "invalid point", io |-> pu.err, arg |-> nx.ret.data],
                    backing |-> bk]
              ELSE StrideLoop(nx.s, i + 1, n, AppendTo(bk, cap, pu.n), cap)

\* a stride taken anew from every group
StrideOfEachGroup(b, st) == Count(b, ",") + 1

\* the stride a group fixes when none is set
StrideOf(b, st) == IF st = -1 THEN Count(b, ",") + 1 ELSE st

\* the delimiter trimmed, the whitespace kept
TrimGroupKeepSpace(line, delim) == TrimSuffix(line, delim)

\* a closing '#' trimmed as well
TrimGroupAndHash(line, delim) == TrimSpace(TrimSuffix(TrimSuffix(line, delim), "#"))

\* the trimmed bytes of what ReadSlice returned
TrimGroup(line, delim) == TrimSpace(TrimSuffix(line, delim))

\* len(backing)/stride, the capacity of pairs: Go's division truncates
\* towards zero and panics on a zero divisor, which -1 stands for here
PairsCap(bk, st) ==
    IF st > 0 THEN Len(bk) \div st
    ELSE IF st < 0 THEN 0 - (Len(bk) \div (0 - st))
    ELSE -1

\* the final loop of ReadAllV1Points: backing cut into Points of length stride
RECURSIVE Pairs(_, _)
Pairs(bk, st) ==
    IF Len(bk) = 0 THEN <<>>
    ELSE <<SubSeq(bk, 1, st)>> \o Pairs(SubSeq(bk, st + 1, Len(bk)), st)

-----------------------------------------------------------------------------
(* Strength.Scale, over the rationals num/den with den > 0 *)

Ratio(n, d) == [num |-> n, den |-> d]

\* a clamp with no upper bound
clampFBelow(f) == IF f.num < 0 THEN Ratio(0, 1) ELSE f

clampF(f) ==
    IF f.num < 0 THEN Ratio(0, 1)
    ELSE IF f.num > f.den THEN Ratio(1, 1)
    ELSE f

Scale(s, v) ==
    CASE v = V0 -> clampF(Ratio(s, ScaleV0))
      [] v = V1 -> clampF(Ratio(s, ScaleV1))
      [] OTHER -> Ratio(0, 1)

-----------------------------------------------------------------------------
(* The streams handed to Parse: written field by field and group by group,  *)
(* as the pattern files of README.md and of the tests are                   *)

\* decimal digits of n >= 0
RECURSIVE Itoa(_)
Itoa(n) ==
    IF n < 10 THEN <<Digits[n + 1]>>
    ELSE Itoa(n \div 10) \o <<Digits[(n % 10) + 1]>>

\* the elements of l, each a byte slice, joined by the byte c
RECURSIVE Join(_, _)
Join(l, c) ==
    IF Len(l) = 0 THEN <<>>
    ELSE IF Len(l) = 1 THEN l[1]
    ELSE l[1] \o <<c>> \o Join(Tail(l), c)

RECURSIVE Concat(_)
Concat(l) == IF Len(l) = 0 THEN <<>> ELSE Head(l) \o Concat(Tail(l))

SeqsUpTo(S, n) == UNION {[1..k -> S] : k \in 0..n}

\* a header field "key:value": the value written from an integer, from a
\* string, from a list of features, or a field written as raw bytes
IntField(k, n) == [key |-> k, kind |-> "int", n |-> n, str |-> <<>>, list |-> <<>>]
StrField(k, v) == [key |-> k, kind |-> "str", n |-> 0, str |-> v, list |-> <<>>]
ListField(k, l) == [key |-> k, kind |-> "list", n |-> 0, str |-> <<>>, list |-> l]
RawField(b) == [key |-> <<>>, kind |-> "raw", n |-> 0, str |-> b, list |-> <<>>]

FieldValue(f) ==
    CASE f.kind = "int" -> Itoa(f.n)
      [] f.kind = "list" -> Join(f.list, ",")
      [] OTHER -> f.str

RenderField(f) ==
    IF f.kind = "raw" THEN f.str \o <<";">>
    ELSE f.key \o <<":">> \o FieldValue(f) \o <<";">>

RenderFields(fs) == Concat([i \in 1..Len(fs) |-> RenderField(fs[i])])

\* a value token of the data section: written from an integer, or raw bytes
NumTok(n) == [kind |-> "num", n |-> n, text |-> Itoa(n)]
RawTok(b) == [kind |-> "raw", n |-> 0, text |-> b]

\* a group of the data section: leading whitespace, tokens joined by ',',
\* and what ends it
Group(pre, toks, end) == [pre |-> pre, toks |-> toks, end |-> end]

RenderGroup(g) ==
    g.pre \o Join([i \in 1..Len(g.toks) |-> g.toks[i].text], ",") \o g.end

RenderGroups(gs) == Concat([i \in 1..Len(gs) |-> RenderGroup(gs[i])])

Edge == <<"E", "d", "g", "e">>

\* the first field of a header
FirstFields ==
    {IntField(<<"V">>, 0), IntField(<<"V">>, 1), IntField(<<"V">>, 2),
     IntField(<<"V">>, 3), StrField(<<"V">>, <<"x">>)}

\* the fields after it
FieldPool ==
    {StrField(<<"T">>, Edge),
     ListField(<<"F">>, <<<<"v", "1">>, <<"v", "2">>>>),
     ListField(<<"F">>, <<<<"r">>>>),
     ListField(<<"F">>, <<<<>>>>),
     IntField(<<"S">>, 50),
     StrField(<<"S">>, <<"1", "x">>),
     StrField(<<"M">>, <<"a", "b">>),
     IntField(<<"X">>, 9),
     RawField(<<"j">>),
     RawField(<<"T", ":", "a", ":", "b">>),
     RawField(<<"S", ":", "1", ":", "2">>)}

\* the header of testdata/edge, as TestParseV1 expects it
EdgeHeader ==
    <<IntField(<<"V">>, 1), StrField(<<"T">>, Edge),
      ListField(<<"F">>, <<<<"v", "1">>, <<"v", "2">>>>),
      IntField(<<"S">>, 100),
      StrField(<<"M">>, <<"d", "e", "a", "d", "b", "e", "e", "f">>)>>

G01 == Group(<<>>, <<NumTok(0), NumTok(1)>>, <<";">>)
G200 == Group(<<"\n">>, <<NumTok(20), NumTok(0)>>, <<";">>)

\* the data section written after the headers above
HeaderData == {<<G01>>}

\* the headers written before the Standard data sections below
DataHeaders ==
    {<<IntField(<<"V">>, 1), ListField(<<"F">>, <<<<"v", "1">>, <<"v", "2">>>>)>>}

\* the groups of a Standard data section: full, short and long groups, blank
\* ones, a last group without its ';' and a closing '#'
GroupPool ==
    {G01, G200,
     Group(<<>>, <<NumTok(7)>>, <<";">>),
     Group(<<>>, <<NumTok(255), NumTok(2), NumTok(256)>>, <<";">>),
     Group(<<"\n">>, <<>>, <<";">>),
     Group(<<" ">>, <<>>, <<"\n">>),
     Group(<<>>, <<NumTok(4), NumTok(5)>>, <<>>),
     Group(<<>>, <<NumTok(4)>>, <<>>),
     Group(<<>>, <<RawTok(<<"#">>)>>, <<>>)}

\* the value tokens of a Legacy stream
TokenPool ==
    {NumTok(0), NumTok(100), NumTok(255), NumTok(256),
     RawTok(<<>>), RawTok(<<"\n">>), RawTok(<<"-", "1">>)}

\* a stream with a header, as written
HeaderOrigins ==
    {[family |-> "header", fields |-> <<f>> \o fs, term |-> t, groups |-> gs] :
        f \in FirstFields, fs \in SeqsUpTo(FieldPool, MaxFields),
        t \in {<<"#">>}, gs \in HeaderData}
    \cup
    {[family |-> "header", fields |-> <<f>>, term |-> <<>>, groups |-> <<>>] :
        f \in FirstFields}
    \cup
    {[family |-> "header", fields |-> EdgeHeader, term |-> <<"#">>, groups |-> gs] :
        gs \in HeaderData}

\* headers declaring no, one and three Features
BareHeaders ==
    {<<IntField(<<"V">>, 1)>>,
     <<IntField(<<"V">>, 1), ListField(<<"F">>, <<<<"r">>>>)>>,
     <<IntField(<<"V">>, 1), ListField(<<"F">>, <<<<"a">>, <<"b">>, <<"c">>>>)>>}

\* data sections without any value
BlankData ==
    {<<>>,
     <<Group(<<"\n">>, <<>>, <<";">>)>>,
     <<Group(<<"\n">>, <<>>, <<";">>), Group(<<" ">>, <<>>, <<"\n">>)>>}

StandardOrigins ==
    {[family |-> "standard", fields |-> fs, term |-> <<"#">>, groups |-> gs] :
        fs \in DataHeaders, gs \in SeqsUpTo(GroupPool, MaxGroups)}
    \cup
    {[family |-> "standard", fields |-> fs, term |-> <<"#">>, groups |-> gs] :
        fs \in BareHeaders, gs \in BlankData}

LegacyOrigins ==
    {[family |-> "legacy", fields |-> <<>>, term |-> <<>>,
      groups |-> <<Group(<<>>, ts, <<>>)>>] :
        ts \in SeqsUpTo(TokenPool, MaxTokens)}

Origins == HeaderOrigins \cup StandardOrigins \cup LegacyOrigins

\* the bytes of a stream
Render(o) == RenderFields(o.fields) \o o.term \o RenderGroups(o.groups)

\* the sizes of the reads of the byte source
Chunks == {1, DefaultBufSize}

\* bufio.NewReader(r) of NewReader
BufSizes == {DefaultBufSize}

-----------------------------------------------------------------------------
(* Initial states *)

NilPattern == [nil |-> TRUE, Header |-> DefaultHeader, Points |-> NilPoints]

ParseOK == [stage |-> "nil", cause |-> NoErr]

NoOutcome == [pattern |-> NilPattern, failed |-> FALSE]

IdleSep == [b |-> NilSlice, tail |-> 0, s |-> ","]

IdleScale == [s |-> 0, v |-> 0]

NoScale == [done |-> FALSE, val |-> Ratio(0, 1)]

\* the locals of one Parse call, before its first statement
FreshCall ==
    /\ pos = 0
    /\ fetched = 0
    /\ pc = "Start"
    /\ header = DefaultHeader
    /\ p = NilPoints
    /\ err = ParseOK
    /\ pattern = NilPattern
    /\ stages = <<>>
    /\ points = NilPoints
    /\ backing = <<>>
    /\ ncap = 0
    /\ stride = -1
    /\ rerr = "nil"

InitParse ==
    /\ mode = "parse"
    /\ origin \in Origins
    /\ input = Render(origin)
    /\ chunk \in Chunks
    /\ size \in BufSizes
    /\ FreshCall
    /\ run = 1
    /\ prev = NoOutcome
    /\ sr = IdleSep /\ srIn = <<>> /\ srOut = <<>>
    /\ scIn = IdleScale /\ scOut = NoScale

IdleParse ==
    /\ origin = [family |-> "none", fields |-> <<>>, term |-> <<>>, groups |-> <<>>]
    /\ input = <<>>
    /\ chunk = 1
    /\ size = DefaultBufSize
    /\ FreshCall
    /\ run = 0
    /\ prev = NoOutcome

InitSep ==
    /\ mode = "sep"
    /\ srIn \in SeqsUpTo({",", "1", "2"}, MaxSepLen)
    /\ sr = [b |-> Slice(srIn), tail |-> 0, s |-> ","]
    /\ srOut = <<>>
    /\ IdleParse
    /\ scIn = IdleScale /\ scOut = NoScale

InitScale ==
    /\ mode = "scale"
    /\ scIn \in [s : 0..MaxUint8, v : {V0, V1, 2}]
    /\ scOut = NoScale
    /\ IdleParse
    /\ sr = IdleSep /\ srIn = <<>> /\ srOut = <<>>

Init == InitParse \/ InitSep \/ InitScale

-----------------------------------------------------------------------------
(* Parse *)

sepVars == <<sr, srIn, srOut>>
scaleVars == <<scIn, scOut>>
inputVars == <<mode, input, origin, chunk, size, run, prev>>
loopVars == <<points, backing, ncap, stride, rerr>>

\* return nil, fmt.Errorf(...): Parse ends with an error naming the stage
Fail(stage, cause) ==
    /\ pc' = "Failed"
    /\ err' = [stage |-> stage, cause |-> cause]
    /\ pattern' = NilPattern

\* h, err := reader.ReadHeader()
ParseReadHeader ==
    /\ mode = "parse"
    /\ pc = "Start"
    /\ LET rh == ReadHeader(pos, fetched) IN
        /\ pos' = rh.pos
        /\ fetched' = rh.fetched
        /\ header' = rh.header
        /\ stages' = Append(stages, "header")
        /\ IF rh.err.kind # "nil"
           THEN Fail("header", rh.err)
           ELSE pc' = "HeaderDecoded" /\ UNCHANGED <<err, pattern>>
    /\ UNCHANGED <<p, loopVars, inputVars, sepVars, scaleVars>>

\* case V0: ReadAllV0Points up to its read loop
ParseV0Begin ==
    /\ mode = "parse"
    /\ pc = "HeaderDecoded"
    /\ header.Version = V0
    /\ stages' = Append(stages, "points")
    /\ LET pk == Peek(Buffered(pos, fetched), pos, fetched) IN
        /\ rerr' = pk.err
        /\ IF pk.err = "nil"
           THEN /\ ncap' = EstimateV0(pos, fetched)
                /\ points' = [nil |-> FALSE, pts |-> <<>>]
                /\ pc' = "V0Loop"
                /\ p' = p
           ELSE /\ ncap' = 0
                /\ points' = NilPoints
                /\ pc' = "PointsDecoded"
                /\ p' = NilPoints
    /\ UNCHANGED <<pos, fetched, header, err, pattern, backing, stride,
                   inputVars, sepVars, scaleVars>>

\* a read loop that goes on after the end of input
LoopEndIgnoresEOF(e, ret) ==
    /\ rerr' = e
    /\ pc' = pc
    /\ p' = p
    /\ UNCHANGED <<err, pattern>>

\* a read loop that takes the end of input for a read error
LoopEndEOFFails(e, ret) ==
    /\ rerr' = e
    /\ IF e = "nil"
       THEN pc' = pc /\ p' = p /\ UNCHANGED <<err, pattern>>
       ELSE /\ Fail("points", [kind |-> "cannot read", io |-> e, arg |-> <<>>])
            /\ p' = NilPoints

\* how a turn of a read loop ends when it neither failed nor returned: the
\* loop goes on while err == nil, else the decoder returns ret
LoopEnd(e, ret) ==
    /\ rerr' = e
    /\ IF e = "nil"
       THEN pc' = pc /\ p' = p
       ELSE pc' = "PointsDecoded" /\ p' = ret
    /\ UNCHANGED <<err, pattern>>

\* one turn of the read loop of ReadAllV0Points
V0Iter ==
    /\ mode = "parse"
    /\ pc = "V0Loop"
    /\ LET rs == ReadSlice(",", pos, fetched)
           b == TrimGroup(rs.line, ",")
           pu == ParseUint(b)
       IN
        /\ pos' = rs.pos
        /\ fetched' = rs.fetched
        /\ IF rs.err \notin {"nil", "EOF"}
           THEN /\ Fail("points", [kind |-> "cannot read v0 point", io |-> rs.err, arg |-> <<>>])
                /\ p' = points
                /\ rerr' = rs.err
                /\ points' = points
           ELSE IF Len(b) = 0
           THEN /\ points' = points
                /\ LoopEnd(rs.err, points)
           ELSE IF pu.err # "nil"
           THEN /\ Fail("points", [kind |-> "error parsing v0 point", io |-> pu.err, arg |-> b])
                /\ p' = points
                /\ rerr' = rs.err
                /\ points' = points
           ELSE /\ points' = [points EXCEPT !.pts = AppendTo(points.pts, ncap, <<pu.n>>)]
                /\ LoopEnd(rs.err, points')
    /\ UNCHANGED <<header, stages, backing, ncap, stride, inputVars, sepVars, scaleVars>>

\* case V1: ReadAllV1Points up to its read loop
ParseV1Begin ==
    /\ mode = "parse"
    /\ pc = "HeaderDecoded"
    /\ header.Version = V1
    /\ stages' = Append(stages, "points")
    /\ backing' = <<>>
    /\ stride' = -1
    /\ LET pk == Peek(Buffered(pos, fetched), pos, fetched) IN
        /\ rerr' = pk.err
        /\ IF pk.err = "nil"
           THEN /\ ncap' = EstimateV1(pos, fetched)
                /\ pc' = "V1Loop"
                /\ p' = p
           ELSE /\ ncap' = 0
                /\ pc' = "PointsDecoded"
                /\ p' = [nil |-> FALSE, pts |-> <<>>]
    /\ UNCHANGED <<pos, fetched, header, err, pattern, points,
                   inputVars, sepVars, scaleVars>>

\* one turn of the read loop of ReadAllV1Points; the turn that ends the loop
\* cuts backing into the Points returned
V1Iter ==
    /\ mode = "parse"
    /\ pc = "V1Loop"
    /\ LET rs == ReadSlice(";", pos, fetched)
           b == TrimGroup(rs.line, ";")
           st == StrideOf(b, stride)
           sl == StrideLoop([b |-> Slice(b), tail |-> 0, s |-> ","], 0, st, backing, ncap)
       IN
        /\ pos' = rs.pos
        /\ fetched' = rs.fetched
        /\ IF rs.err \notin {"nil", "EOF"}
           THEN /\ Fail("points", [kind |-> "cannot read", io |-> rs.err, arg |-> <<>>])
                /\ p' = NilPoints
                /\ rerr' = rs.err
                /\ UNCHANGED <<backing, stride>>
           ELSE IF Len(b) = 0
           THEN /\ UNCHANGED <<backing, stride>>
                /\ LoopEnd(rs.err, [nil |-> FALSE, pts |-> Pairs(backing, stride)])
           ELSE IF sl.err.kind # "nil"
           THEN /\ Fail("points", sl.err)
                /\ p' = NilPoints
                /\ rerr' = rs.err
                /\ stride' = st
                /\ backing' = sl.backing
           ELSE /\ stride' = st
                /\ backing' = sl.backing
                /\ LoopEnd(rs.err, [nil |-> FALSE, pts |-> Pairs(sl.backing, st)])
    /\ UNCHANGED <<header, stages, points, ncap, inputVars, sepVars, scaleVars>>

\* case 2: return nil, fmt.Errorf("unknown version %d", h.Version)
ParseUnknownVersion ==
    /\ mode = "parse"
    /\ pc = "HeaderDecoded"
    /\ header.Version = 2
    /\ Fail("version", [kind |-> "unknown version", io |-> "nil", arg |-> <<>>])
    /\ UNCHANGED <<pos, fetched, header, p, stages, loopVars, inputVars,
                   sepVars, scaleVars>>

\* no case of the switch matches: p stays nil and Parse goes on
ParseNoCase ==
    /\ mode = "parse"
    /\ pc = "HeaderDecoded"
    /\ header.Version \notin {V0, V1, 2}
    /\ pc' = "PointsDecoded"
    /\ p' = NilPoints
    /\ UNCHANGED <<pos, fetched, header, err, pattern, stages, loopVars,
                   inputVars, sepVars, scaleVars>>

\* Parse without its header/point check
ParseCheckNoMismatch ==
    /\ mode = "parse"
    /\ pc = "PointsDecoded"
    /\ stages' = Append(stages, "check")
    /\ pc' = "Validated"
    /\ pattern' = [nil |-> FALSE, Header |-> header, Points |-> p]
    /\ err' = ParseOK
    /\ UNCHANGED <<pos, fetched, header, p, loopVars, inputVars, sepVars, scaleVars>>

\* Parse checking the Features also when there is no Point
ParseCheckNeedsPoints ==
    /\ mode = "parse"
    /\ pc = "PointsDecoded"
    /\ stages' = Append(stages, "check")
    /\ IF Len(p.pts) = 0 \/ Len(p.pts[1]) # Len(header.Features)
       THEN Fail("consistency", [kind |-> "mismatch", io |-> "nil", arg |-> <<>>])
       ELSE /\ pc' = "Validated"
            /\ pattern' = [nil |-> FALSE, Header |-> header, Points |-> p]
            /\ err' = ParseOK
    /\ UNCHANGED <<pos, fetched, header, p, loopVars, inputVars, sepVars, scaleVars>>

\* the header/point check of Parse and its return
ParseCheck ==
    /\ mode = "parse"
    /\ pc = "PointsDecoded"
    /\ stages' = Append(stages, "check")
    /\ IF Len(p.pts) > 0 /\ Len(p.pts[1]) # Len(header.Features)
       THEN Fail("consistency", [kind |-> "mismatch", io |-> "nil", arg |-> <<>>])
       ELSE /\ pc' = "Validated"
            /\ pattern' = [nil |-> FALSE, Header |-> header, Points |-> p]
            /\ err' = ParseOK
    /\ UNCHANGED <<pos, fetched, header, p, loopVars, inputVars, sepVars, scaleVars>>

\* what a Parse call returned: its Pattern, or that it failed
Outcome == [pattern |-> pattern, failed |-> err.stage # "nil"]

\* a second, independent Parse call on the same bytes, from a byte source
\* that splits them differently
ParseAgain ==
    /\ mode = "parse"
    /\ pc \in {"Validated", "Failed"}
    /\ run = 1
    /\ run' = 2
    /\ prev' = Outcome
    /\ chunk' \in Chunks \ {chunk}
    /\ pos' = 0
    /\ fetched' = 0
    /\ pc' = "Start"
    /\ header' = DefaultHeader
    /\ p' = NilPoints
    /\ err' = ParseOK
    /\ pattern' = NilPattern
    /\ stages' = <<>>
    /\ points' = NilPoints
    /\ backing' = <<>>
    /\ ncap' = 0
    /\ stride' = -1
    /\ rerr' = "nil"
    /\ UNCHANGED <<mode, input, origin, size, sepVars, scaleVars>>

-----------------------------------------------------------------------------
(* sepReader and Scale on their own *)

\* calls of next() made after the last token was returned
MaxExtraCalls == 2

\* b := r.next()
SepNextCall ==
    /\ mode = "sep"
    /\ Len(srOut) < Count(srIn, ",") + 1 + MaxExtraCalls
    /\ sr' = SepNext(sr).s
    /\ srOut' = Append(srOut, SepNext(sr).ret)
    /\ UNCHANGED <<mode, srIn, parseVars, scaleVars>>

\* s.Scale(v)
ScaleCall ==
    /\ mode = "scale"
    /\ ~scOut.done
    /\ scOut' = [done |-> TRUE, val |-> Scale(scIn.s, scIn.v)]
    /\ UNCHANGED <<mode, scIn, parseVars, sepVars>>

Next ==
    \/ ParseReadHeader
    \/ ParseV0Begin
    \/ V0Iter
    \/ ParseV1Begin
    \/ V1Iter
    \/ ParseUnknownVersion
    \/ ParseNoCase
    \/ ParseCheck
    \/ ParseAgain
    \/ SepNextCall
    \/ ScaleCall

Spec == Init /\ [][Next]_vars

-----------------------------------------------------------------------------
(* Parse over a *bufio.Reader the caller made: NewReader keeps it, whatever  *)
(* its size.  Every stream is parsed through NewReader's own buffer first    *)
(* and through a smaller one after that.                                     *)

\* the buffer bufio.NewReaderSize(f, 12) makes: bufio's smallest
MinBufSize == 16
\* the buffer of bufio.NewReaderSize(f, 38)
TestBufSize == 38

SmallBufSizes == {MinBufSize, TestBufSize}

Pad(k) == [i \in 1..k |-> " "]

\* a value token written after k spaces
PaddedTok(n, k) == [kind |-> "num", n |-> n, text |-> Pad(k) \o Itoa(n)]

\* a header of fifteen bytes declaring four Features
WideHeader ==
    <<IntField(<<"V">>, 1),
      ListField(<<"F">>, <<<<"a">>, <<"b">>, <<"c">>, <<"d">>>>)>>

\* a group of seventeen bytes, and one of eight
WideGroup ==
    Group(<<"\n">>, <<NumTok(100), NumTok(100), NumTok(100), NumTok(100)>>, <<";">>)
NarrowGroup ==
    Group(<<>>, <<NumTok(1), NumTok(2), NumTok(3), NumTok(4)>>, <<";">>)

\* streams whose header, groups and tokens fit the smallest buffer, and
\* streams with a header, a group or a token longer than it
BufOrigins ==
    {[family |-> "standard", fields |-> fs, term |-> <<"#">>, groups |-> gs] :
        fs \in DataHeaders, gs \in SeqsUpTo({G01, G200}, MaxGroups)}
    \cup
    {[family |-> "standard", fields |-> WideHeader, term |-> <<"#">>, groups |-> gs] :
        gs \in SeqsUpTo({WideGroup, NarrowGroup}, MaxGroups)}
    \cup
    {[family |-> "standard", fields |-> fs, term |-> <<"#">>, groups |-> <<G01>>] :
        fs \in {EdgeHeader, <<IntField(<<"V">>, 2)>>, <<IntField(<<"V">>, 3)>>}}
    \cup
    {[family |-> "legacy", fields |-> <<>>, term |-> <<>>,
      groups |-> <<Group(<<>>, ts, <<>>)>>] :
        ts \in SeqsUpTo({NumTok(0), NumTok(100), PaddedTok(7, MinBufSize)}, MaxTokens)}

InitBuf ==
    /\ mode = "parse"
    /\ origin \in BufOrigins
    /\ input = Render(origin)
    /\ chunk \in Chunks
    /\ size = DefaultBufSize
    /\ FreshCall
    /\ run = 1
    /\ prev = NoOutcome
    /\ sr = IdleSep /\ srIn = <<>> /\ srOut = <<>>
    /\ scIn = IdleScale /\ scOut = NoScale

\* a second Parse call on the same bytes, handed a bufio.Reader of a small
\* size over the byte source
ParseAgainSized ==
    /\ mode = "parse"
    /\ pc \in {"Validated", "Failed"}
    /\ run = 1
    /\ run' = 2
    /\ prev' = Outcome
    /\ size' \in SmallBufSizes
    /\ chunk' \in Chunks
    /\ pos' = 0
    /\ fetched' = 0
    /\ pc' = "Start"
    /\ header' = DefaultHeader
    /\ p' = NilPoints
    /\ err' = ParseOK
    /\ pattern' = NilPattern
    /\ stages' = <<>>
    /\ points' = NilPoints
    /\ backing' = <<>>
    /\ ncap' = 0
    /\ stride' = -1
    /\ rerr' = "nil"
    /\ UNCHANGED <<mode, input, origin, sepVars, scaleVars>>

NextBuf ==
    \/ ParseReadHeader
    \/ ParseV0Begin
    \/ V0Iter
    \/ ParseV1Begin
    \/ V1Iter
    \/ ParseUnknownVersion
    \/ ParseNoCase
    \/ ParseCheck
    \/ ParseAgainSized

SpecBuf == InitBuf /\ [][NextBuf]_vars

-----------------------------------------------------------------------------
(* Reader.ReadV1Points, called group by group after ReadHeader *)

\* the range loop of ReadV1Points over the parts of what ReadSlice returned
RECURSIVE AtoiParts(_)
AtoiParts(parts) ==
    IF Len(parts) = 0 THEN [err |-> NoErr, point |-> <<>>]
    ELSE LET v == Atoi(Head(parts)) IN
         IF v.err # "nil"
         THEN [err |-> [kind |-> "invalid point", io |-> v.err, arg |-> Head(parts)],
               point |-> <<>>]
         ELSE LET r == AtoiParts(Tail(parts)) IN
              [err |-> r.err,
               point |-> IF r.err.kind = "nil"
                         THEN <<v.n % (MaxUint8 + 1)>> \o r.point ELSE <<>>]

\* Reader.ReadV1Points: the Point and the error it returns, and the stream
\* after the call
ReadV1Points(ps, ft) ==
    LET rs == ReadSlice(";", ps, ft) IN
    IF rs.err # "nil"
    THEN [point |-> <<>>, err |-> [kind |-> "read", io |-> rs.err, arg |-> <<>>],
          pos |-> rs.pos, fetched |-> rs.fetched]
    ELSE LET r == AtoiParts(Split(rs.line, ",")) IN
         [point |-> r.point, err |-> r.err, pos |-> rs.pos, fetched |-> rs.fetched]

\* point, err := reader.ReadV1Points(); the Points returned are collected
ReadV1PointsCall ==
    /\ mode = "parse"
    /\ pc \in {"HeaderDecoded", "PointRead"}
    /\ header.Version = V1
    /\ LET r == ReadV1Points(pos, fetched) IN
        /\ pos' = r.pos
        /\ fetched' = r.fetched
        /\ IF r.err.kind # "nil"
           THEN /\ pc' = "PointFailed"
                /\ err' = [stage |-> "points", cause |-> r.err]
                /\ points' = points
           ELSE /\ pc' = "PointRead"
                /\ err' = err
                /\ points' = [nil |-> FALSE, pts |-> Append(points.pts, r.point)]
    /\ UNCHANGED <<header, p, pattern, stages, backing, ncap, stride, rerr,
                   inputVars, sepVars, scaleVars>>

\* a Standard stream handed to NewReader
InitPoints ==
    /\ origin \in StandardOrigins
    /\ InitParse

NextPoints ==
    \/ ParseReadHeader
    \/ ReadV1PointsCall

SpecPoints == InitPoints /\ [][NextPoints]_vars

-----------------------------------------------------------------------------
(* Properties *)

Returned == mode = "parse" /\ pc \in {"Validated", "Failed"}

IsPrefix(s, t) == Len(s) <= Len(t) /\ SubSeq(t, 1, Len(s)) = s

\* C1: when Parse returns a Pattern with at least one Point, every Point has
\* as many values as the header has Features; and when the first decoded
\* Point has another length than the number of Features, Parse returns an
\* error and no Pattern.
C1_PointsMatchFeatures ==
    /\ (mode = "parse" /\ ~pattern.nil) =>
          \A i \in 1..Len(pattern.Points.pts) :
              Len(pattern.Points.pts[i]) = Len(pattern.Header.Features)
    /\ (Returned /\ Len(p.pts) > 0 /\ Len(p.pts[1]) # Len(header.Features)) =>
          (pc = "Failed" /\ pattern.nil /\ err.stage # "nil")

\* a Pattern of several two-valued Points under a header of two Features
C1_Witness ==
    /\ pc = "Validated"
    /\ Len(pattern.Points.pts) >= 2
    /\ Len(pattern.Header.Features) = 2
    /\ Len(pattern.Points.pts[2]) = 2

\* the stages a failed Parse has entered, by the stage its error names; the
\* unknown-version error is raised where the point decoder is selected
StagesAtFailure ==
    CASE err.stage = "header" -> <<"header">>
      [] err.stage = "version" -> <<"header">>
      [] err.stage = "points" -> <<"header", "points">>
      [] err.stage = "consistency" -> <<"header", "points", "check">>
      [] OTHER -> <<>>

\* C2: Parse decodes the header, then the points, then checks them against
\* the header, in that order and each at most once; a failure ends the run
\* with no Pattern and an error naming the stage that failed, and a Pattern
\* is returned only with a nil error, after all three stages.
C2_StagesInOrder ==
    mode = "parse" =>
        /\ IsPrefix(stages, <<"header", "points", "check">>)
        /\ pc = "Failed" => (pattern.nil /\ err.stage # "nil" /\ stages = StagesAtFailure)
        /\ ~pattern.nil =>
              (err = ParseOK /\ stages = <<"header", "points", "check">>)

-----------------------------------------------------------------------------
(* The stream as it was written *)

\* a header field whose value has the type of its key
WellFormedField(f) ==
    CASE f.kind = "raw" -> FALSE
      [] f.key \in {<<"V">>, <<"S">>} -> f.kind = "int"
      [] f.key = <<"F">> -> f.kind = "list"
      [] f.key \in {<<"T">>, <<"M">>} -> f.kind = "str"
      [] OTHER -> TRUE

\* a stream that begins with "V:" and whose header ends with '#'
HasHeader(o) ==
    /\ Len(o.fields) > 0
    /\ o.fields[1].kind # "raw"
    /\ o.fields[1].key = <<"V">>
    /\ o.term = <<"#">>

\* what a written field says of the header
FieldWritten(f, hd) ==
    CASE f.key = <<"V">> -> [hd EXCEPT !.Version = f.n]
      [] f.key = <<"T">> -> [hd EXCEPT !.Type = f.str]
      [] f.key = <<"F">> -> [hd EXCEPT !.Features = f.list]
      [] f.key = <<"S">> -> [hd EXCEPT !.Interval = f.n * Millisecond]
      [] f.key = <<"M">> -> [hd EXCEPT !.MD5Sum = f.str]
      [] OTHER -> hd

RECURSIVE HeaderWritten(_, _)
HeaderWritten(fs, hd) ==
    IF Len(fs) = 0 THEN hd
    ELSE HeaderWritten(Tail(fs), FieldWritten(Head(fs), hd))

\* C3: on a stream that begins with "V:" and whose header ends with '#',
\* ReadHeader sets Version, Type, Features, Interval and MD5Sum from the V, T,
\* F, S and M fields as they were written, the F tokens in their order and in
\* place of the default list; a field that is absent leaves its default, and
\* a field with an unknown key changes nothing.
C3_HeaderAsWritten ==
    (/\ mode = "parse"
     /\ stages # <<>>
     /\ HasHeader(origin)
     /\ \A i \in 1..Len(origin.fields) : WellFormedField(origin.fields[i]))
    => (/\ err.stage # "header"
        /\ header = HeaderWritten(origin.fields, DefaultHeader))

\* the header of testdata/edge, decoded
C3_Witness ==
    /\ pc = "HeaderDecoded"
    /\ origin.fields = EdgeHeader
    /\ header = [Version |-> 1, Type |-> Edge,
                 Features |-> <<<<"v", "1">>, <<"v", "2">>>>,
                 Interval |-> 100 * Millisecond,
                 MD5Sum |-> <<"d", "e", "a", "d", "b", "e", "e", "f">>]

IsBlankTok(t) == t.kind = "raw" /\ \A i \in 1..Len(t.text) : IsSpace(t.text[i])

IsValueTok(t) == t.kind = "num" /\ t.n <= MaxUint8

\* one single-valued Point per value token
RECURSIVE PointsWritten(_)
PointsWritten(ts) ==
    IF Len(ts) = 0 THEN <<>>
    ELSE IF IsBlankTok(Head(ts)) THEN PointsWritten(Tail(ts))
    ELSE <<<<Head(ts).n>>>> \o PointsWritten(Tail(ts))

\* C4: a stream of two bytes or more that does not begin with "V:" and is
\* made of comma-separated decimal values in 0..255 and blank tokens decodes
\* to the default header and to one single-valued Point per value token, in
\* the order written; a blank token gives no Point.
C4_LegacyAsWritten ==
    (/\ Returned
     /\ origin.family = "legacy"
     /\ Len(input) >= 2
     /\ \A i \in 1..Len(origin.groups[1].toks) :
            IsValueTok(origin.groups[1].toks[i]) \/ IsBlankTok(origin.groups[1].toks[i]))
    => (/\ pc = "Validated"
        /\ ~pattern.nil
        /\ pattern.Header = DefaultHeader
        /\ ~pattern.Points.nil
        /\ pattern.Points.pts = PointsWritten(origin.groups[1].toks))

\* a Legacy stream with a blank token between two values, decoded
C4_Witness ==
    /\ pc = "Validated"
    /\ origin.family = "legacy"
    /\ Len(origin.groups[1].toks) = 3
    /\ IsBlankTok(origin.groups[1].toks[2])
    /\ pattern.Points.pts = <<<<255>>, <<100>>>>

NonBlank(g) == Len(g.toks) > 0

\* every group that is followed by another non-blank group ends with ';'
Delimited(gs) ==
    \A i \in 1..Len(gs) : \A j \in 1..Len(gs) :
        (i < j /\ NonBlank(gs[i]) /\ NonBlank(gs[j])) => gs[i].end = <<";">>

HasNonBlank(gs) == \E i \in 1..Len(gs) : NonBlank(gs[i])

FirstNonBlank(gs) ==
    CHOOSE i \in 1..Len(gs) : NonBlank(gs[i]) /\ \A j \in 1..(i - 1) : ~NonBlank(gs[j])

\* the stride the first non-blank group fixes
StrideWritten(gs) == Len(gs[FirstNonBlank(gs)].toks)

\* a non-blank group after the first one has fewer values than the stride
HasShortGroup(gs) ==
    /\ HasNonBlank(gs)
    /\ \E j \in 1..Len(gs) :
          /\ j > FirstNonBlank(gs)
          /\ NonBlank(gs[j])
          /\ Len(gs[j].toks) < StrideWritten(gs)

\* C5: in Standard decoding, a non-blank group with fewer values than the
\* stride the first non-blank group fixed, the last group cut short by the
\* end of input included, makes ReadAllV1Points and Parse return an error;
\* no Points are returned.
C5_ShortGroupFails ==
    (/\ Returned
     /\ origin.family = "standard"
     /\ Delimited(origin.groups)
     /\ HasShortGroup(origin.groups))
    => (/\ pc = "Failed"
        /\ err.stage = "points"
        /\ p = NilPoints
        /\ pattern.nil)

\* a last group of one value cut short by the end of input under stride 2,
\* after two full groups
C5_Witness ==
    /\ pc = "Failed"
    /\ origin.family = "standard"
    /\ Delimited(origin.groups)
    /\ HasShortGroup(origin.groups)
    /\ err.cause.kind = "doesn't have points"
    /\ stride = 2
    /\ Len(backing) = 5
    /\ origin.groups[Len(origin.groups)].end = <<>>

\* C6: two Parse calls on the same bytes return the same outcome, equal
\* Patterns or an error both times, however the byte source splits the bytes
\* over its reads and whatever was buffered when the preallocation estimate
\* was taken.
C6_SameOutcome ==
    (Returned /\ run = 2) => Outcome = prev

\* a second call fed byte by byte, whose estimate fell short of the values
\* it decoded, after a first call fed all bytes at once
C6_Witness ==
    /\ pc = "Validated"
    /\ run = 2
    /\ chunk = 1
    /\ ncap = 1
    /\ Len(backing) >= 4
    /\ ~prev.pattern.nil

\* C7: over a slice with k delimiters, successive next() calls return the
\* k+1 tokens between the delimiters in order, none lost, repeated or
\* reordered, empty tokens as empty non-nil slices; every call after that
\* returns nil.
C7_SepReaderTokens ==
    mode = "sep" =>
        LET k == Count(srIn, ",")
            m == Min(Len(srOut), k + 1)
            got == Join([i \in 1..m |-> srOut[i].data], ",")
        IN  /\ \A i \in 1..Len(srOut) :
                  IF i <= k + 1
                  THEN ~srOut[i].nil /\ Count(srOut[i].data, ",") = 0
                  ELSE srOut[i] = NilSlice
            /\ IF m = k + 1 THEN got = srIn /\ sr.b = NilSlice
               ELSE IF m = 0 THEN sr.b = Slice(srIn)
               ELSE ~sr.b.nil /\ got \o <<",">> \o sr.b.data = srIn

\* "1,,2": three tokens, the second one empty, then nil twice
C7_Witness ==
    /\ mode = "sep"
    /\ srIn = <<"1", ",", ",", "2">>
    /\ srOut = <<Slice(<<"1">>), Slice(<<>>), Slice(<<"2">>), NilSlice, NilSlice>>

\* C8: for every Strength s, Scale(V0) is min(s,100)/100 and Scale(V1) is
\* min(s,20)/20, so that the result lies in [0,1].
C8_ScaleClamped ==
    (mode = "scale" /\ scOut.done) =>
        /\ scOut.val.den > 0
        /\ 0 <= scOut.val.num /\ scOut.val.num <= scOut.val.den
        /\ scIn.v = 0 => scOut.val.num * 100 = Min(scIn.s, 100) * scOut.val.den
        /\ scIn.v = 1 => scOut.val.num * 20 = Min(scIn.s, 20) * scOut.val.den

\* the Legacy value 150 scaled to 1
C8_Witness ==
    /\ mode = "scale"
    /\ scOut.done
    /\ scIn = [s |-> 150, v |-> 0]
    /\ scOut.val.num = scOut.val.den

\* the values of the value tokens before the first token that is neither a
\* value nor blank, and whether there is such a token
RECURSIVE LegacyWritten(_)
LegacyWritten(ts) ==
    IF Len(ts) = 0 THEN [vals |-> <<>>, status |-> "ok"]
    ELSE IF IsBlankTok(Head(ts)) THEN LegacyWritten(Tail(ts))
    ELSE IF ~IsValueTok(Head(ts)) THEN [vals |-> <<>>, status |-> "bad"]
    ELSE LET r == LegacyWritten(Tail(ts)) IN
         [vals |-> <<<<Head(ts).n>>>> \o r.vals, status |-> r.status]

\* the first n tokens of one group: their values up to the first token that
\* is no value, or up to the end of a group that is too short
RECURSIVE GroupWritten(_, _)
GroupWritten(ts, n) ==
    IF n = 0 THEN [vals |-> <<>>, status |-> "ok"]
    ELSE IF Len(ts) = 0 THEN [vals |-> <<>>, status |-> "short"]
    ELSE IF ~IsValueTok(Head(ts)) THEN [vals |-> <<>>, status |-> "bad"]
    ELSE LET r == GroupWritten(Tail(ts), n - 1) IN
         [vals |-> <<Head(ts).n>> \o r.vals, status |-> r.status]

\* the same over the groups of a data section of stride n
RECURSIVE GroupsWritten(_, _)
GroupsWritten(gs, n) ==
    IF Len(gs) = 0 THEN [vals |-> <<>>, status |-> "ok"]
    ELSE IF ~NonBlank(Head(gs)) THEN GroupsWritten(Tail(gs), n)
    ELSE LET g == GroupWritten(Head(gs).toks, n) IN
         IF g.status # "ok" THEN g
         ELSE LET r == GroupsWritten(Tail(gs), n) IN
              [vals |-> g.vals \o r.vals, status |-> r.status]

StandardWritten(gs) ==
    IF HasNonBlank(gs) THEN GroupsWritten(gs, StrideWritten(gs))
    ELSE [vals |-> <<>>, status |-> "ok"]

\* C9: both decoders store a value token that is a decimal integer in 0..255
\* as exactly that value, and fail on a value token they consume that is
\* above 255, negative or no decimal integer.
C9_ValuesExact ==
    /\ (Returned /\ origin.family = "legacy" /\ Len(input) >= 2) =>
          LET w == LegacyWritten(origin.groups[1].toks) IN
          /\ points.pts = w.vals
          /\ w.status = "bad" =>
                (pc = "Failed" /\ err.stage = "points"
                   /\ err.cause.io \in {"syntax", "range"})
          /\ w.status = "ok" => pc = "Validated"
    /\ (Returned /\ origin.family = "standard" /\ Delimited(origin.groups)) =>
          LET w == StandardWritten(origin.groups) IN
          /\ backing = w.vals
          /\ w.status = "bad" =>
                (pc = "Failed" /\ err.stage = "points"
                   /\ err.cause.io \in {"syntax", "range"})
          /\ w.status = "ok" => err.stage # "points"

\* 255 and 2 stored as they are, then 256 refused as out of range
C9_Witness ==
    /\ pc = "Failed"
    /\ origin.family = "standard"
    /\ Delimited(origin.groups)
    /\ backing = <<255, 2>>
    /\ stride = 3
    /\ err.cause = [kind |-> "invalid point", io |-> "range", arg |-> <<"2", "5", "6">>]

\* a group as the wire format has it: w values in 0..255, then ';'
CompleteGroup(g, w) ==
    /\ Len(g.toks) = w
    /\ \A i \in 1..Len(g.toks) : IsValueTok(g.toks[i])
    /\ g.end = <<";">>

ClosingHash == Group(<<>>, <<RawTok(<<"#">>)>>, <<>>)

\* a Standard header, as written, in front of complete groups of the width
\* the header declares
StandardStream(o, gs) ==
    /\ HasHeader(o)
    /\ \A i \in 1..Len(o.fields) : WellFormedField(o.fields[i])
    /\ HeaderWritten(o.fields, DefaultHeader).Version = 1
    /\ \A i \in 1..Len(gs) :
          CompleteGroup(gs[i], Len(HeaderWritten(o.fields, DefaultHeader).Features))

PointsOf(gs) == [i \in 1..Len(gs) |-> [j \in 1..Len(gs[i].toks) |-> gs[i].toks[j].n]]

AllButLast(gs) == SubSeq(gs, 1, Len(gs) - 1)

EndsWithHash(o) ==
    Len(o.groups) >= 2 /\ o.groups[Len(o.groups)] = ClosingHash

\* C10 as stated: Parse succeeds on a header ended by '#', complete groups
\* and a final '#' after the last ';', and returns the groups before the
\* final '#' as Points.
C10_ClosingHashAccepted ==
    (Returned /\ EndsWithHash(origin) /\ StandardStream(origin, AllButLast(origin.groups)))
    => (/\ pc = "Validated"
        /\ pattern.Header = HeaderWritten(origin.fields, DefaultHeader)
        /\ pattern.Points.pts = PointsOf(AllButLast(origin.groups)))

\* C10, amended: Parse succeeds on a header ended by '#' followed by complete
\* ';'-terminated groups of as many values as the header declares Features,
\* and returns the header fields and the groups as Points; a final '#' after
\* the last ';' is read as one more group and makes Parse return an error.
C10_StandardAsWritten ==
    /\ (Returned /\ StandardStream(origin, origin.groups))
       => (/\ pc = "Validated"
           /\ pattern.Header = HeaderWritten(origin.fields, DefaultHeader)
           /\ pattern.Points.pts = PointsOf(origin.groups))
    /\ (Returned /\ EndsWithHash(origin)
          /\ StandardStream(origin, AllButLast(origin.groups)))
       => (/\ pc = "Failed"
           /\ pattern.nil
           /\ err.stage = "points"
           /\ err.cause = [kind |-> "invalid point", io |-> "syntax", arg |-> <<"#">>])

\* two complete groups and a final '#', refused
C10_Witness ==
    /\ pc = "Failed"
    /\ Len(origin.groups) = 3
    /\ EndsWithHash(origin)
    /\ StandardStream(origin, AllButLast(origin.groups))
    /\ backing = <<0, 1, 20, 0>>

-----------------------------------------------------------------------------
(* Buffer capacity *)

LegacyStream(o) ==
    /\ o.family = "legacy"
    /\ Len(Render(o)) >= 2
    /\ \A i \in 1..Len(o.groups[1].toks) :
          IsValueTok(o.groups[1].toks[i]) \/ IsBlankTok(o.groups[1].toks[i])

\* a stream as the file format has it
WellFormedStream(o) ==
    \/ o.family = "standard" /\ StandardStream(o, o.groups)
    \/ LegacyStream(o)

\* C11: a well-formed stream decodes to the same Pattern whatever the size
\* of the bufio.Reader Parse works on: through a small caller-supplied buffer
\* Parse succeeds and returns the Pattern it returns through its own buffer,
\* also when the header, a group or a Legacy token is longer than the buffer.
C11_AnyCapacity ==
    (Returned /\ run = 2 /\ WellFormedStream(origin))
    => (/\ pc = "Validated"
        /\ ~prev.failed
        /\ Outcome = prev)

-----------------------------------------------------------------------------
(* ReadV1Points *)

\* the bytes of the header and of the first k groups
RECURSIVE GroupsLen(_, _)
GroupsLen(gs, k) ==
    IF k = 0 THEN 0 ELSE GroupsLen(gs, k - 1) + Len(RenderGroup(gs[k]))

HeaderLen(o) == Len(RenderFields(o.fields)) + Len(o.term)

\* C12: on a stream of well-formed groups "n1,...,nk;" every ReadV1Points
\* call returns the next group as a Point with a nil error and leaves the
\* stream just after that group's ';', so that the Points collected over the
\* calls are the groups in order, as ReadAllV1Points returns them.
C12_PointPerCall ==
    (/\ mode = "parse"
     /\ pc \in {"PointRead", "PointFailed"}
     /\ StandardStream(origin, origin.groups)
     /\ Len(points.pts) < Len(origin.groups))
    => (/\ pc = "PointRead"
        /\ points.pts = PointsOf(SubSeq(origin.groups, 1, Len(points.pts)))
        /\ pos = HeaderLen(origin) + GroupsLen(origin.groups, Len(points.pts)))

-----------------------------------------------------------------------------
(* Header decoding: defaults and errors *)

IsFField(f) == f.kind = "list" /\ f.key = <<"F">>

HasFField(fs) == \E i \in 1..Len(fs) : IsFField(fs[i])

LastFField(fs) ==
    fs[CHOOSE i \in 1..Len(fs) :
          IsFField(fs[i]) /\ \A j \in (i + 1)..Len(fs) : ~IsFField(fs[j])]

\* no field written as raw bytes
Typed(fs) == \A i \in 1..Len(fs) : fs[i].kind # "raw"

\* C13: after a ReadHeader call that returned a nil error Features is never
\* empty: it is ["v"] when the stream has no header or its header no F field,
\* and otherwise the tokens of the last F field as written, one entry each,
\* a single empty entry when that F value is empty.
C13_FeaturesNeverEmpty ==
    (mode = "parse" /\ stages # <<>> /\ err.stage # "header" /\ Typed(origin.fields))
    => (/\ Len(header.Features) >= 1
        /\ ~HasFField(origin.fields) => header.Features = <<<<"v">>>>
        /\ HasFField(origin.fields) =>
              /\ header.Features = LastFField(origin.fields).list
              /\ Len(header.Features) = Count(FieldValue(LastFField(origin.fields)), ",") + 1)

\* a header whose last F field has an empty value, after an F field with two
\* tokens: one empty Feature
C13_Witness ==
    /\ pc = "HeaderDecoded"
    /\ Len(origin.fields) = 3
    /\ IsFField(origin.fields[2])
    /\ Len(origin.fields[2].list) = 2
    /\ IsFField(origin.fields[3])
    /\ FieldValue(origin.fields[3]) = <<>>
    /\ header.Features = <<<<>>>>

\* a V or S field whose value is no integer
BadNumField(f) ==
    /\ f.key \in {<<"V">>, <<"S">>}
    /\ f.kind = "str"
    /\ ~(Len(f.str) > 0 /\ AllDigits(f.str))

HasBadNumField(fs) == \E i \in 1..Len(fs) : BadNumField(fs[i])

FirstBadNumField(fs) ==
    fs[CHOOSE i \in 1..Len(fs) :
          BadNumField(fs[i]) /\ \A j \in 1..(i - 1) : ~BadNumField(fs[j])]

\* a stream that begins with "V:"
BeginsWithV(o) ==
    /\ Len(o.fields) > 0
    /\ Typed(o.fields)
    /\ o.fields[1].key = <<"V">>

\* C14: on a stream that begins with "V:", ReadHeader fails and Parse returns
\* no Pattern and decodes no points when the stream ends before a '#', with
\* the end-of-input error of the byte source, and when the value of V or of S
\* is no integer, with an error that names the value and is no end-of-input
\* error.
C14_HeaderErrors ==
    (mode = "parse" /\ stages # <<>> /\ BeginsWithV(origin))
    => (/\ (origin.term = <<>> /\ Count(input, "#") = 0) =>
              err = [stage |-> "header",
                     cause |-> [kind |-> "read", io |-> "EOF", arg |-> <<>>]]
        /\ (origin.term = <<"#">> /\ HasBadNumField(origin.fields)) =>
              LET f == FirstBadNumField(origin.fields) IN
              /\ err.stage = "header"
              /\ err.cause.kind =
                    (IF f.key = <<"V">> THEN "invalid version" ELSE "invalid S value")
              /\ err.cause.arg = f.str
              /\ err.cause.io # "EOF"
        /\ (origin.term = <<>> \/ HasBadNumField(origin.fields)) =>
              /\ pc = "Failed"
              /\ pattern.nil
              /\ stages = <<"header">>
              /\ p = NilPoints /\ points = NilPoints /\ backing = <<>>)

\* "S:1x" after a well-formed field: the error names "1x"
C14_Witness ==
    /\ pc = "Failed"
    /\ Len(origin.fields) = 3
    /\ origin.fields[1] = IntField(<<"V">>, 1)
    /\ origin.fields[3] = StrField(<<"S">>, <<"1", "x">>)
    /\ err.cause = [kind |-> "invalid S value", io |-> "nil", arg |-> <<"1", "x">>]

-----------------------------------------------------------------------------
(* Standard decoding: long groups, blank groups, end of input *)

\* the first n values of every non-blank group, one Point per group
RECURSIVE TruncatedPoints(_, _)
TruncatedPoints(gs, n) ==
    IF Len(gs) = 0 THEN <<>>
    ELSE IF ~NonBlank(Head(gs)) THEN TruncatedPoints(Tail(gs), n)
    ELSE <<[j \in 1..n |-> Head(gs).toks[j].n]>> \o TruncatedPoints(Tail(gs), n)

\* every non-blank group has at least n tokens, the first n of them values
FirstValues(gs, n) ==
    \A i \in 1..Len(gs) :
        NonBlank(gs[i]) =>
            /\ Len(gs[i].toks) >= n
            /\ \A j \in 1..n : IsValueTok(gs[i].toks[j])

HasLongGroup(gs) ==
    /\ HasNonBlank(gs)
    /\ \E i \in 1..Len(gs) : Len(gs[i].toks) > StrideWritten(gs)

\* C15: in Standard decoding a non-blank group with more values than the
\* stride is accepted: its Point is made of its first values, as many as the
\* stride, and what follows them in the group is never parsed, so that it
\* changes neither the Points nor the success of the decode.
C15_LongGroupTruncated ==
    (/\ Returned
     /\ origin.family = "standard"
     /\ Delimited(origin.groups)
     /\ HasLongGroup(origin.groups)
     /\ FirstValues(origin.groups, StrideWritten(origin.groups)))
    => (/\ err.stage # "points"
        /\ stride = StrideWritten(origin.groups)
        /\ ~p.nil
        /\ p.pts = TruncatedPoints(origin.groups, StrideWritten(origin.groups))
        /\ pc = "Validated" <=> stride = Len(header.Features))

\* "255,2,256;" between two groups of two values: the Point [255,2], and 256
\* never parsed
C15_Witness ==
    /\ pc = "Validated"
    /\ Len(origin.groups) = 3
    /\ Len(origin.groups[2].toks) = 3
    /\ origin.groups[2].toks[3] = NumTok(256)
    /\ pattern.Points.pts = <<<<0, 1>>, <<255, 2>>, <<20, 0>>>>

-----------------------------------------------------------------------------
(* Header fields written as raw bytes *)

WellFormedOrRaw(fs) ==
    \A i \in 1..Len(fs) : WellFormedField(fs[i]) \/ fs[i].kind = "raw"

\* no raw field has exactly one ':'
NoSingleColon(fs) ==
    \A i \in 1..Len(fs) : fs[i].kind = "raw" => Count(fs[i].str, ":") # 1

\* C16 as stated: a field with no ':' or with two or more is ignored; it
\* changes no Header field and causes no error.
C16_MalformedIgnored ==
    (/\ mode = "parse"
     /\ stages # <<>>
     /\ HasHeader(origin)
     /\ WellFormedOrRaw(origin.fields)
     /\ NoSingleColon(origin.fields))
    => (/\ err.stage # "header"
        /\ header = HeaderWritten(origin.fields, DefaultHeader))

\* what a field written as raw bytes amounts to: nothing without a ':', else
\* the key before its first ':' and, as value, all the bytes after it
AsKeyValue(f) ==
    IF f.kind # "raw" \/ Count(f.str, ":") = 0 THEN f
    ELSE StrField(SubSeq(f.str, 1, IndexByte(f.str, ":")),
                  SubSeq(f.str, IndexByte(f.str, ":") + 2, Len(f.str)))

\* C16, amended: a field without any ':' is ignored, changing no Header
\* field and causing no error; a field with two or more ':' is not: it is
\* cut at its first ':' and the rest, further colons included, is its value,
\* so that "T:a:b" sets Type to "a:b" and "S:1:2" ends ReadHeader with the
\* error of an S value that is no integer.
C16_CutAtFirstColon ==
    (/\ mode = "parse"
     /\ stages # <<>>
     /\ HasHeader(origin)
     /\ WellFormedOrRaw(origin.fields))
    => LET fs == [i \in 1..Len(origin.fields) |-> AsKeyValue(origin.fields[i])] IN
       IF HasBadNumField(fs)
       THEN /\ err.stage = "header"
            /\ err.cause.kind =
                  (IF FirstBadNumField(fs).key = <<"V">>
                   THEN "invalid version" ELSE "invalid S value")
            /\ err.cause.arg = FirstBadNumField(fs).str
       ELSE /\ err.stage # "header"
            /\ header = HeaderWritten(fs, DefaultHeader)

\* "j" and "T:a:b" in one header: the first ignored, the second read as the
\* Type "a:b"
C16_Witness ==
    /\ pc = "HeaderDecoded"
    /\ Len(origin.fields) = 3
    /\ origin.fields[2] = RawField(<<"j">>)
    /\ origin.fields[3] = RawField(<<"T", ":", "a", ":", "b">>)
    /\ header.Type = <<"a", ":", "b">>

-----------------------------------------------------------------------------
(* Version dispatch *)

\* C17: Parse returns an error and no Pattern whenever the V field of the
\* header is an integer other than 0 and 1; every Pattern Parse returns has
\* Version 0 or 1 and the Points the decoder of that version produced.
C17_UnknownVersionFails ==
    /\ (/\ Returned
        /\ HasHeader(origin)
        /\ \A i \in 1..Len(origin.fields) : WellFormedField(origin.fields[i])
        /\ HeaderWritten(origin.fields, DefaultHeader).Version \notin {V0, V1})
       => (pc = "Failed" /\ pattern.nil /\ err.stage # "nil")
    /\ (mode = "parse" /\ ~pattern.nil)
       => (/\ pattern.Header.Version \in {V0, V1}
           /\ "points" \in {stages[i] : i \in 1..Len(stages)}
           /\ ~pattern.Points.nil)

-----------------------------------------------------------------------------
(* Stride *)

\* the groups the decoder has consumed when ps bytes of the stream are
\* consumed
GroupsBefore(o, ps) ==
    Cardinality({k \in 1..Len(o.groups) :
                    HeaderLen(o) + GroupsLen(o.groups, k) <= ps})

\* C18: within one ReadAllV1Points call the stride is assigned once, by the
\* first non-blank group, and never changes afterwards; a read that covers
\* only blank groups, wherever they stand, appends no value, leaves the
\* stride as it is and is no stride violation.
C18_StrideSetOnce ==
    [][(/\ mode = "parse"
        /\ pc = "V1Loop"
        /\ origin.family = "standard"
        /\ Delimited(origin.groups))
       => LET read == (GroupsBefore(origin, pos) + 1)..GroupsBefore(origin, pos')
              blank == \A i \in read : ~NonBlank(origin.groups[i])
          IN  /\ stride # -1 => stride' = stride
              /\ blank => (stride' = stride /\ backing' = backing /\ pc' # "Failed")
              /\ (stride = -1 /\ ~blank) =>
                    /\ FirstNonBlank(origin.groups) \in read
                    /\ stride' = StrideWritten(origin.groups)
                    /\ backing = <<>>]_vars

\* a blank group before and a blank group after the only group of values
C18_Witness ==
    /\ pc = "Validated"
    /\ Len(origin.groups) = 3
    /\ ~NonBlank(origin.groups[1])
    /\ origin.groups[2] = G01
    /\ ~NonBlank(origin.groups[3])
    /\ stride = 2
    /\ pattern.Points.pts = <<<<0, 1>>>>

-----------------------------------------------------------------------------
(* End of input *)

\* every non-blank group has exactly n tokens, all of them values
ExactValues(gs, n) ==
    \A i \in 1..Len(gs) :
        NonBlank(gs[i]) =>
            /\ Len(gs[i].toks) = n
            /\ \A j \in 1..n : IsValueTok(gs[i].toks[j])

WidthWritten(gs) == IF HasNonBlank(gs) THEN StrideWritten(gs) ELSE 0

\* C19: in Standard decoding the end of input ends the point stream without
\* error: a last group with the full stride of values and no ';' before the
\* end of input is the last Point, and the end of input right after a ';',
\* or after whitespace that follows it, adds no Point.
C19_EndOfInputEndsPoints ==
    (/\ Returned
     /\ origin.family = "standard"
     /\ Delimited(origin.groups)
     /\ ExactValues(origin.groups, WidthWritten(origin.groups)))
    => (/\ err.stage # "points"
        /\ rerr = "EOF"
        /\ pos = Len(input)
        /\ ~p.nil
        /\ p.pts = PointsOf(SelectSeq(origin.groups, NonBlank)))

\* "0,1;4,5" and the end of input: [4,5] is the last Point
C19_Witness ==
    /\ pc = "Validated"
    /\ Len(origin.groups) = 2
    /\ origin.groups[1] = G01
    /\ origin.groups[2].end = <<>>
    /\ NonBlank(origin.groups[2])
    /\ pattern.Points.pts = <<<<0, 1>>, <<4, 5>>>>

-----------------------------------------------------------------------------
(* What ReadHeader consumes *)

\* C20: ReadHeader consumes the header and nothing else: no byte of a stream
\* of two bytes or more that does not begin with "V:", and the bytes up to
\* and including the first '#' of a stream that does; selecting the point
\* decoder and taking its estimate consume nothing, so that the decoder's
\* first read starts at the first byte of the stream, or at the byte after
\* the '#'.
C20_HeaderOnlyConsumed ==
    [][mode = "parse" =>
        /\ (pc = "Start" /\ pc' = "HeaderDecoded" /\ origin.family = "legacy") =>
              (Len(input) >= 2 /\ pos' = 0)
        /\ (pc = "Start" /\ pc' = "HeaderDecoded" /\ HasHeader(origin)) =>
              /\ pos' = IndexByte(input, "#") + 1
              /\ pos' = HeaderLen(origin)
        /\ pc = "HeaderDecoded" => pos' = pos]_vars

\* the header of testdata/edge consumed, the data after it read ahead but
\* not consumed
C20_Witness ==
    /\ pc = "V1Loop"
    /\ origin.fields = EdgeHeader
    /\ input[pos] = "#"
    /\ pos = HeaderLen(origin)
    /\ fetched = Len(input)
    /\ input[pos + 1] = "0"
    /\ backing = <<>>

-----------------------------------------------------------------------------
(* Short Legacy streams *)

\* C21: a Legacy stream shorter than two bytes is decoded like any other:
\* ReadHeader returns the default header without error, and Parse returns
\* the default header with the one Point of a single one-digit value, or
\* with no Points for an empty stream.
C21_ShortLegacyDecoded ==
    (/\ Returned
     /\ origin.family = "legacy"
     /\ Len(input) < 2
     /\ \A i \in 1..Len(origin.groups[1].toks) :
            IsValueTok(origin.groups[1].toks[i]) \/ IsBlankTok(origin.groups[1].toks[i]))
    => (/\ pc = "Validated"
        /\ err = ParseOK
        /\ pattern.Header = DefaultHeader
        /\ pattern.Points.pts = PointsWritten(origin.groups[1].toks))

-----------------------------------------------------------------------------
(* What a decoder returns with its error *)

\* C22: when ReadAllV0Points or ReadAllV1Points returns an error, it returns
\* no Points with it: what was decoded before the failing token is
\* discarded, in both decoders alike.
C22_NoPointsWithError ==
    (mode = "parse" /\ pc = "Failed" /\ err.stage = "points")
    => Len(p.pts) = 0

-----------------------------------------------------------------------------
(* Termination *)

\* how far a Parse call has got
Rank(c) ==
    CASE c = "Start" -> 0
      [] c = "HeaderDecoded" -> 1
      [] c \in {"V0Loop", "V1Loop"} -> 2
      [] c = "PointsDecoded" -> 3
      [] OTHER -> 4

InLoop(c) == c \in {"V0Loop", "V1Loop"}

\* the errors of a token, and those of a read
TokenErrors == {"error parsing v0 point", "invalid point", "doesn't have points"}
ReadErrors == {"cannot read v0 point", "cannot read"}

\* C23: Parse terminates on every finite input: every step of a call moves
\* it on, or is a turn of a read loop that consumes at least one byte of the
\* stream, a turn over a blank token or group included; the loop goes on
\* only while its read error is nil; and a token that fails to parse ends
\* the call with a token error, whatever the read of that turn returned.
C23_LoopsConsumeOrEnd ==
    [][(mode = "parse" /\ run' = run)
       => /\ pos' <= Len(input)
          /\ Rank(pc') > Rank(pc) \/ (InLoop(pc) /\ pc' = pc /\ pos' > pos)
          /\ (InLoop(pc) /\ pc' = pc) => (rerr = "nil" /\ rerr' = "nil")
          /\ (InLoop(pc) /\ pc' = "Failed") =>
                IF rerr' \in {"nil", "EOF"}
                THEN /\ err'.cause.kind \in TokenErrors
                     /\ err'.cause.io \in {"syntax", "range", "nil"}
                     /\ err'.cause.io = "nil" <=> err'.cause.kind = "doesn't have points"
                ELSE err'.cause.kind \in ReadErrors /\ err'.cause.io = rerr']_vars

\* a Legacy stream whose last token is read together with the end of input
\* and fails to parse, after a blank token was skipped
C23_Witness ==
    /\ pc = "Failed"
    /\ origin.family = "legacy"
    /\ Len(origin.groups[1].toks) = 3
    /\ IsBlankTok(origin.groups[1].toks[2])
    /\ rerr = "EOF"
    /\ pos = Len(input)
    /\ err.cause.kind = "error parsing v0 point"
    /\ err.cause.io = "range"

-----------------------------------------------------------------------------
(* A data section without values *)

\* C24: a Standard stream whose data section has no non-blank group, a
\* header alone or whitespace and ';' after the '#', decodes: the stride is
\* never set, the capacity computed from it is zero and nothing is sliced,
\* ReadAllV1Points returns an empty, non-nil Points without error, and Parse
\* skips its check and returns the header with no Points, whatever Features
\* the header declares.
C24_NoValuesDecodes ==
    (/\ Returned
     /\ origin.family = "standard"
     /\ ~HasNonBlank(origin.groups))
    => (/\ pc = "Validated"
        /\ err = ParseOK
        /\ stride = -1
        /\ backing = <<>>
        /\ PairsCap(backing, stride) = 0
        /\ p = [nil |-> FALSE, pts |-> <<>>]
        /\ pattern.Points = p
        /\ pattern.Header = HeaderWritten(origin.fields, DefaultHeader))

\* whitespace and ';' after the '#', under a header of three Features
C24_Witness ==
    /\ pc = "Validated"
    /\ origin.family = "standard"
    /\ Len(origin.groups) = 2
    /\ ~HasNonBlank(origin.groups)
    /\ origin.groups[1].end = <<";">>
    /\ stride = -1
    /\ pattern.Points = [nil |-> FALSE, pts |-> <<>>]
    /\ Len(pattern.Header.Features) = 3

=============================================================================
